---- MODULE Spec2Model ----
(***************************************************************************)
(* Model of the stimpl evaluator (src/stimpl/runtime.py).                  *)
(*                                                                         *)
(* evaluate is a recursive function; it is modelled as the recursive       *)
(* operator evaluate, one operator per case of the match statement.  An    *)
(* exception is a result whose err field is not "none": every case tests   *)
(* the err field of a sub-evaluation right after it and hands the failed   *)
(* result on, which is what stack unwinding does.                          *)
(*                                                                         *)
(* Each result carries a log of what happened during the evaluation, in    *)
(* order: the calls of evaluate with the State they received, the returns, *)
(* the lines printed and the exception raised.                             *)
(*                                                                         *)
(* Representation.                                                         *)
(*   expression  a tuple <<kind, fields...>>, fields as in the match       *)
(*               patterns of evaluate                                      *)
(*   type        the name of the type class: "Unit", "Integer", ...; two   *)
(*               types are equal when they are of the same class           *)
(*   value       None, an integer, a boolean, a string as the sequence of  *)
(*               its code points, a float as the exact fraction            *)
(*               <<numerator, denominator>> in lowest terms                *)
(*   State       the chain of bindings as a sequence, newest first;        *)
(*               EmptyState is <<>>                                        *)
(***************************************************************************)
EXTENDS Integers, Sequences, FiniteSets

VARIABLES
    pc,         \* "for": at the head of the loop of Program; "evaluate": at its call of
                \* evaluate; "done": run_stimpl returned; "raised": an exception left it
    state,      \* new_state of the Program loop: the State the next expression receives
    expr,       \* the expression the loop evaluated last
    before,     \* the State that expression received
    result,     \* what evaluate gave for it (Nothing while it is being evaluated)
    count       \* number of expressions of the Program evaluated so far

vars == <<pc, state, expr, before, result, count>>

----------------------------------------------------------------------------
(* Bounds *)

MaxExprs == 2       \* expressions in the Program
MaxIter == 3        \* iterations of a While loop that are followed
MaxDigits == 6      \* digits printed after the decimal point of a float

----------------------------------------------------------------------------
(* Values *)

None == "None"

EmptyState == <<>>

Errors == {"syntax", "type", "math"}

Abs(n) == IF n < 0 THEN -n ELSE n

RECURSIVE Gcd(_, _)
Gcd(a, b) == IF b = 0 THEN a ELSE Gcd(b, a % b)

\* a float: the fraction n/d in lowest terms, d > 0
Float(n, d) ==
    LET s == IF d < 0 THEN -1 ELSE 1
        g == Gcd(Abs(n), Abs(d))
    IN  <<(s * n) \div g, (s * d) \div g>>

\* Python's // on integers: the floor of the quotient
FloorDiv(a, b) ==
    LET q == Abs(a) \div Abs(b)
        exact == Abs(a) % Abs(b) = 0
    IN  IF (a < 0) = (b < 0) \/ a = 0 THEN q
        ELSE IF exact THEN -q ELSE -(q + 1)

RECURSIVE SeqLess(_, _)
SeqLess(s, t) ==
    IF t = <<>> THEN FALSE
    ELSE IF s = <<>> THEN TRUE
    ELSE IF Head(s) # Head(t) THEN Head(s) < Head(t)
    ELSE SeqLess(Tail(s), Tail(t))

\* left_value < right_value on two values of the same type
Less(l, r, type) ==
    CASE type = "Integer" -> l < r
      [] type = "Boolean" -> (~l) /\ r
      [] type = "String" -> SeqLess(l, r)
      [] type = "FloatingPoint" -> l[1] * r[2] < r[1] * l[2]

\* right_result == 0 as Python decides it: bool is a subclass of int
EqualsZero(value, type) ==
    CASE type = "Integer" -> value = 0
      [] type = "FloatingPoint" -> value[1] = 0
      [] type = "Boolean" -> value = FALSE
      [] OTHER -> FALSE

\* the truth value Python's while gives to a value
Truthy(value, type) ==
    CASE type = "Boolean" -> value
      [] type = "Integer" -> value # 0
      [] type = "FloatingPoint" -> value[1] # 0
      [] type = "String" -> value # <<>>
      [] OTHER -> FALSE

RECURSIVE Digits(_)
Digits(n) == IF n < 10 THEN <<48 + n>> ELSE Digits(n \div 10) \o <<48 + (n % 10)>>

RECURSIVE Fraction(_, _, _)
Fraction(rem, d, k) ==
    IF rem = 0 \/ k = 0 THEN <<>>
    ELSE <<48 + ((rem * 10) \div d)>> \o Fraction((rem * 10) % d, d, k - 1)

\* f"{printable_value}"
Format(value, type) ==
    CASE type = "Integer" ->
            (IF value < 0 THEN <<45>> ELSE <<>>) \o Digits(Abs(value))
      [] type = "Boolean" ->
            IF value THEN <<84, 114, 117, 101>> ELSE <<70, 97, 108, 115, 101>>
      [] type = "String" -> value
      [] type = "FloatingPoint" ->
            LET n == Abs(value[1])
                frac == Fraction(n % value[2], value[2], MaxDigits)
            IN  (IF value[1] < 0 THEN <<45>> ELSE <<>>)
                \o Digits(n \div value[2]) \o <<46>>
                \o (IF frac = <<>> THEN <<48>> ELSE frac)
      [] OTHER -> <<78, 111, 110, 101>>

----------------------------------------------------------------------------
(* Interpreter State *)

\* mutant: the binding of the name is replaced where it is
RECURSIVE Without(_, _)
Without(self, variable_name) ==
    IF self = <<>> THEN <<>>
    ELSE IF Head(self).variable_name = variable_name THEN Without(Tail(self), variable_name)
    ELSE <<Head(self)>> \o Without(Tail(self), variable_name)

set_valueInPlace(self, variable_name, variable_value, variable_type) ==
    <<[variable_name |-> variable_name,
       value |-> <<variable_value, variable_type>>]>> \o Without(self, variable_name)

set_value(self, variable_name, variable_value, variable_type) ==
    <<[variable_name |-> variable_name,
       value |-> <<variable_value, variable_type>>]>> \o self

\* mutant: the search goes on to the end of the chain, the oldest binding wins
RECURSIVE get_valueOldest(_, _)
get_valueOldest(self, variable_name) ==
    IF self = <<>> THEN <<>>
    ELSE LET older == get_valueOldest(Tail(self), variable_name)
         IN  IF older # <<>> THEN older
             ELSE IF variable_name = Head(self).variable_name THEN Head(self).value
             ELSE <<>>

\* None is <<>>, a found binding its pair <<value, type>>
RECURSIVE get_value(_, _)
get_value(self, variable_name) ==
    IF self = EmptyState THEN <<>>
    ELSE IF variable_name = Head(self).variable_name THEN Head(self).value
    ELSE get_value(Tail(self), variable_name)

----------------------------------------------------------------------------
(* Results of evaluate *)

\* return (value, type, state)
Returned(value, type, new_state, log) ==
    [err |-> "none", value |-> value, type |-> type, state |-> new_state, log |-> log]

\* raise: no value, no type and no State come back
Raised(err, expression, log) ==
    [err |-> err, value |-> None, type |-> None, state |-> EmptyState,
     log |-> log \o <<[ev |-> "raise", err |-> err, node |-> expression]>>]

\* an exception of a sub-evaluation passing through the caller
Unwind(r, log) == [r EXCEPT !.log = log]

\* the loop was followed for MaxIter iterations and did not end: evaluate
\* does not return (in Python the loop runs on, until the chain of bindings
\* is too long for the recursion of get_value)
Diverged(log) ==
    [err |-> "diverge", value |-> None, type |-> None, state |-> EmptyState, log |-> log]

Called(expression, state_) == [ev |-> "call", node |-> expression, state |-> state_]

Printed(text) == [ev |-> "print", text |-> text]

----------------------------------------------------------------------------
(* Main evaluation logic *)

RECURSIVE evaluate(_, _)
RECURSIVE SequenceLoop(_, _, _)
RECURSIVE WhileLoop(_, _, _, _)

EvalRen(expression, state_) == Returned(None, "Unit", state_, <<>>)

EvalIntLiteral(expression, state_) == Returned(expression[2], "Integer", state_, <<>>)

EvalFloatingPointLiteral(expression, state_) ==
    Returned(expression[2], "FloatingPoint", state_, <<>>)

EvalStringLiteral(expression, state_) == Returned(expression[2], "String", state_, <<>>)

EvalBooleanLiteral(expression, state_) == Returned(expression[2], "Boolean", state_, <<>>)

EvalPrint(expression, state_) ==
    LET to_print == expression[2]
        p == evaluate(to_print, state_)
    IN  IF p.err # "none" THEN p
        ELSE LET line == IF p.type = "Unit" THEN <<85, 110, 105, 116>>
                         ELSE Format(p.value, p.type)
             IN  Returned(p.value, p.type, p.state, p.log \o <<Printed(line)>>)

\* mutant: the exception of an element is dropped and the loop goes on
SequenceLoopGoesOn(exprs, i, acc) ==
    IF i > Len(exprs) THEN acc
    ELSE LET r == evaluate(exprs[i], acc.state)
         IN  IF r.err # "none"
             THEN SequenceLoop(exprs, i + 1,
                               Returned(acc.value, acc.type, acc.state, acc.log \o r.log))
             ELSE SequenceLoop(exprs, i + 1,
                               Returned(r.value, r.type, r.state, acc.log \o r.log))

\* the for loop of Sequence | Program from its i-th expression on; acc is
\* (variable_value, variable_type, new_state) and the log so far
SequenceLoop(exprs, i, acc) ==
    IF i > Len(exprs) THEN acc
    ELSE LET r == evaluate(exprs[i], acc.state)
         IN  IF r.err # "none" THEN Unwind(r, acc.log \o r.log)
             ELSE SequenceLoop(exprs, i + 1,
                               Returned(r.value, r.type, r.state, acc.log \o r.log))

EvalSequence(expression, state_) ==
    SequenceLoop(expression[2], 1, Returned(None, "Unit", state_, <<>>))

EvalVariable(expression, state_) ==
    LET variable_name == expression[2]
        value == get_value(state_, variable_name)
    IN  IF value = <<>> THEN Raised("syntax", expression, <<>>)
        ELSE Returned(value[1], value[2], state_, <<>>)

\* mutant: the value is returned and the binding is not made
EvalAssignBindsNothing(expression, state_) ==
    LET variable == expression[2]
        v == evaluate(expression[3], state_)
    IN  IF v.err # "none" THEN v
        ELSE LET variable_from_state == get_value(v.state, variable[2])
                 variable_type == IF variable_from_state # <<>>
                                  THEN variable_from_state[2] ELSE None
             IN  IF v.type # variable_type /\ variable_type # None
                 THEN Raised("type", expression, v.log)
                 ELSE Returned(v.value, v.type, v.state, v.log)

\* mutant: the type of the binding there is is not compared
EvalAssignUnchecked(expression, state_) ==
    LET variable == expression[2]
        v == evaluate(expression[3], state_)
    IN  IF v.err # "none" THEN v
        ELSE Returned(v.value, v.type,
                      set_value(v.state, variable[2], v.value, v.type), v.log)

EvalAssign(expression, state_) ==
    LET variable == expression[2]
        v == evaluate(expression[3], state_)
    IN  IF v.err # "none" THEN v
        ELSE LET variable_from_state == get_value(v.state, variable[2])
                 variable_type == IF variable_from_state # <<>>
                                  THEN variable_from_state[2] ELSE None
             IN  IF v.type # variable_type /\ variable_type # None
                 THEN Raised("type", expression, v.log)
                 ELSE Returned(v.value, v.type,
                               set_value(v.state, variable[2], v.value, v.type), v.log)

\* mutant: the right operand is evaluated in state, not in new_state
EvalOperandsFromState(expression, state_) ==
    LET l == evaluate(expression[2], state_)
    IN  IF l.err # "none" THEN [err |-> l.err, raised |-> l]
        ELSE LET r == evaluate(expression[3], state_)
             IN  IF r.err # "none"
                 THEN [err |-> r.err, raised |-> Unwind(r, l.log \o r.log)]
                 ELSE [err |-> "none", left |-> l, right |-> r,
                       new_state |-> r.state, log |-> l.log \o r.log]

\* left_result, left_type, new_state = evaluate(left, state)
\* right_result, right_type, new_state = evaluate(right, new_state)
\* as every binary case begins
EvalOperands(expression, state_) ==
    LET l == evaluate(expression[2], state_)
    IN  IF l.err # "none" THEN [err |-> l.err, raised |-> l]
        ELSE LET r == evaluate(expression[3], l.state)
             IN  IF r.err # "none"
                 THEN [err |-> r.err, raised |-> Unwind(r, l.log \o r.log)]
                 ELSE [err |-> "none", left |-> l, right |-> r,
                       new_state |-> r.state, log |-> l.log \o r.log]

Plus(l, r, type) ==
    CASE type = "Integer" -> l + r
      [] type = "String" -> l \o r
      [] type = "FloatingPoint" -> Float(l[1] * r[2] + r[1] * l[2], l[2] * r[2])

Minus(l, r, type) ==
    CASE type = "Integer" -> l - r
      [] type = "FloatingPoint" -> Float(l[1] * r[2] - r[1] * l[2], l[2] * r[2])

Times(l, r, type) ==
    CASE type = "Integer" -> l * r
      [] type = "FloatingPoint" -> Float(l[1] * r[1], l[2] * r[2])

EvalAdd(expression, state_) ==
    LET o == EvalOperands(expression, state_)
    IN  IF o.err # "none" THEN o.raised
        ELSE IF o.left.type # o.right.type THEN Raised("type", expression, o.log)
        ELSE IF o.left.type \in {"Integer", "String", "FloatingPoint"}
             THEN Returned(Plus(o.left.value, o.right.value, o.left.type),
                           o.left.type, o.new_state, o.log)
        ELSE Raised("type", expression, o.log)

EvalSubtract(expression, state_) ==
    LET o == EvalOperands(expression, state_)
    IN  IF o.err # "none" THEN o.raised
        ELSE IF o.left.type # o.right.type THEN Raised("type", expression, o.log)
        ELSE IF o.left.type \in {"Integer", "FloatingPoint"}
             THEN Returned(Minus(o.left.value, o.right.value, o.left.type),
                           o.left.type, o.new_state, o.log)
        ELSE Raised("type", expression, o.log)

EvalMultiply(expression, state_) ==
    LET o == EvalOperands(expression, state_)
    IN  IF o.err # "none" THEN o.raised
        ELSE IF o.left.type # o.right.type THEN Raised("type", expression, o.log)
        ELSE IF o.left.type \in {"Integer", "FloatingPoint"}
             THEN Returned(Times(o.left.value, o.right.value, o.left.type),
                           o.left.type, o.new_state, o.log)
        ELSE Raised("type", expression, o.log)

EvalDivide(expression, state_) ==
    LET o == EvalOperands(expression, state_)
    IN  IF o.err # "none" THEN o.raised
        ELSE IF EqualsZero(o.right.value, o.right.type)
             THEN Raised("math", expression, o.log)
        ELSE IF o.left.type # o.right.type THEN Raised("type", expression, o.log)
        ELSE IF o.left.type = "FloatingPoint"
             THEN Returned(Float(o.left.value[1] * o.right.value[2],
                                 o.left.value[2] * o.right.value[1]),
                           o.left.type, o.new_state, o.log)
        ELSE IF o.left.type = "Integer"
             THEN Returned(FloorDiv(o.left.value, o.right.value),
                           o.left.type, o.new_state, o.log)
        ELSE Raised("type", expression, o.log)

\* mutant: a left operand False decides, the right one is not evaluated
EvalAndShortCircuit(expression, state_) ==
    LET l == evaluate(expression[2], state_)
    IN  IF l.err # "none" THEN l
        ELSE IF l.type = "Boolean" /\ ~l.value
             THEN Returned(FALSE, "Boolean", l.state, l.log)
        ELSE LET r == evaluate(expression[3], l.state)
             IN  IF r.err # "none" THEN Unwind(r, l.log \o r.log)
                 ELSE IF l.type # r.type \/ l.type # "Boolean"
                      THEN Raised("type", expression, l.log \o r.log)
                 ELSE Returned(r.value, "Boolean", r.state, l.log \o r.log)

EvalAnd(expression, state_) ==
    LET o == EvalOperands(expression, state_)
    IN  IF o.err # "none" THEN o.raised
        ELSE IF o.left.type # o.right.type THEN Raised("type", expression, o.log)
        ELSE IF o.left.type = "Boolean"
             THEN Returned(o.left.value /\ o.right.value, o.left.type, o.new_state, o.log)
        ELSE Raised("type", expression, o.log)

EvalOr(expression, state_) ==
    LET o == EvalOperands(expression, state_)
    IN  IF o.err # "none" THEN o.raised
        ELSE IF o.left.type # o.right.type THEN Raised("type", expression, o.log)
        ELSE IF o.left.type = "Boolean"
             THEN Returned(o.left.value \/ o.right.value, o.left.type, o.new_state, o.log)
        ELSE Raised("type", expression, o.log)

EvalNot(expression, state_) ==
    LET e == evaluate(expression[2], state_)
    IN  IF e.err # "none" THEN e
        ELSE IF e.type = "Boolean" THEN Returned(~e.value, "Boolean", e.state, e.log)
        ELSE Raised("type", expression, e.log)

EvalIf(expression, state_) ==
    LET c == evaluate(expression[2], state_)
    IN  IF c.err # "none" THEN c
        ELSE IF c.type # "Boolean" THEN Raised("type", expression, c.log)
        ELSE LET b == IF c.value THEN evaluate(expression[3], c.state)
                      ELSE evaluate(expression[4], c.state)
             IN  IF b.err # "none" THEN Unwind(b, c.log \o b.log)
                 ELSE Returned(b.value, b.type, b.state, c.log \o b.log)

EvalLt(expression, state_) ==
    LET o == EvalOperands(expression, state_)
    IN  IF o.err # "none" THEN o.raised
        ELSE IF o.left.type # o.right.type THEN Raised("type", expression, o.log)
        ELSE IF o.left.type \in {"Integer", "Boolean", "String", "FloatingPoint"}
             THEN Returned(Less(o.left.value, o.right.value, o.left.type),
                           "Boolean", o.new_state, o.log)
        ELSE IF o.left.type = "Unit" THEN Returned(FALSE, "Boolean", o.new_state, o.log)
        ELSE Raised("type", expression, o.log)

EvalLte(expression, state_) ==
    LET o == EvalOperands(expression, state_)
    IN  IF o.err # "none" THEN o.raised
        ELSE IF o.left.type # o.right.type THEN Raised("type", expression, o.log)
        ELSE IF o.left.type \in {"Integer", "Boolean", "String", "FloatingPoint"}
             THEN Returned(Less(o.left.value, o.right.value, o.left.type)
                               \/ o.left.value = o.right.value,
                           "Boolean", o.new_state, o.log)
        ELSE IF o.left.type = "Unit" THEN Returned(TRUE, "Boolean", o.new_state, o.log)
        ELSE Raised("type", expression, o.log)

EvalGt(expression, state_) ==
    LET o == EvalOperands(expression, state_)
    IN  IF o.err # "none" THEN o.raised
        ELSE IF o.left.type # o.right.type THEN Raised("type", expression, o.log)
        ELSE IF o.left.type \in {"Integer", "Boolean", "String", "FloatingPoint"}
             THEN Returned(Less(o.right.value, o.left.value, o.left.type),
                           "Boolean", o.new_state, o.log)
        ELSE IF o.left.type = "Unit" THEN Returned(FALSE, "Boolean", o.new_state, o.log)
        ELSE Raised("type", expression, o.log)

EvalGte(expression, state_) ==
    LET o == EvalOperands(expression, state_)
    IN  IF o.err # "none" THEN o.raised
        ELSE IF o.left.type # o.right.type THEN Raised("type", expression, o.log)
        ELSE IF o.left.type \in {"Integer", "Boolean", "String", "FloatingPoint"}
             THEN Returned(Less(o.right.value, o.left.value, o.left.type)
                               \/ o.left.value = o.right.value,
                           "Boolean", o.new_state, o.log)
        ELSE IF o.left.type = "Unit" THEN Returned(TRUE, "Boolean", o.new_state, o.log)
        ELSE Raised("type", expression, o.log)

EvalEq(expression, state_) ==
    LET o == EvalOperands(expression, state_)
    IN  IF o.err # "none" THEN o.raised
        ELSE IF o.left.type # o.right.type THEN Raised("type", expression, o.log)
        ELSE IF o.left.type = "Unit" THEN Returned(TRUE, "Boolean", o.new_state, o.log)
        ELSE Returned(o.left.value = o.right.value, "Boolean", o.new_state, o.log)

EvalNe(expression, state_) ==
    LET o == EvalOperands(expression, state_)
    IN  IF o.err # "none" THEN o.raised
        ELSE IF o.left.type # o.right.type THEN Raised("type", expression, o.log)
        ELSE IF o.left.type = "Unit" THEN Returned(FALSE, "Boolean", o.new_state, o.log)
        ELSE Returned(o.left.value # o.right.value, "Boolean", o.new_state, o.log)

\* the while statement of case While; c is the evaluation of condition that
\* set if_cond_value and new_state, iter the number of iterations done
WhileLoop(expression, c, log, iter) ==
    IF ~Truthy(c.value, c.type) THEN Returned(FALSE, "Boolean", c.state, log)
    ELSE IF iter >= MaxIter THEN Diverged(log)
    ELSE LET b == evaluate(expression[3], c.state)
         IN  IF b.err # "none" THEN Unwind(b, log \o b.log)
             ELSE LET c2 == evaluate(expression[2], b.state)
                  IN  IF c2.err # "none" THEN Unwind(c2, log \o b.log \o c2.log)
                      ELSE WhileLoop(expression, c2, log \o b.log \o c2.log, iter + 1)

\* mutant: the loop returns Unit, the result_type it starts with
EvalWhileUnit(expression, state_) ==
    LET c == evaluate(expression[2], state_)
    IN  IF c.err # "none" THEN c
        ELSE IF c.type # "Boolean" THEN Raised("type", expression, c.log)
        ELSE LET w == WhileLoop(expression, c, c.log, 0)
             IN  IF w.err # "none" THEN w
                 ELSE Returned(None, "Unit", w.state, w.log)

EvalWhile(expression, state_) ==
    LET c == evaluate(expression[2], state_)
    IN  IF c.err # "none" THEN c
        ELSE IF c.type # "Boolean" THEN Raised("type", expression, c.log)
        ELSE WhileLoop(expression, c, c.log, 0)

EvalUnhandled(expression, state_) == Raised("syntax", expression, <<>>)

\* match expression
Match(expression, state_) ==
    LET kind == expression[1]
    IN  CASE kind = "Ren" -> EvalRen(expression, state_)
          [] kind = "IntLiteral" -> EvalIntLiteral(expression, state_)
          [] kind = "FloatingPointLiteral" -> EvalFloatingPointLiteral(expression, state_)
          [] kind = "StringLiteral" -> EvalStringLiteral(expression, state_)
          [] kind = "BooleanLiteral" -> EvalBooleanLiteral(expression, state_)
          [] kind = "Print" -> EvalPrint(expression, state_)
          [] kind \in {"Sequence", "Program"} -> EvalSequence(expression, state_)
          [] kind = "Variable" -> EvalVariable(expression, state_)
          [] kind = "Assign" -> EvalAssign(expression, state_)
          [] kind = "Add" -> EvalAdd(expression, state_)
          [] kind = "Subtract" -> EvalSubtract(expression, state_)
          [] kind = "Multiply" -> EvalMultiply(expression, state_)
          [] kind = "Divide" -> EvalDivide(expression, state_)
          [] kind = "And" -> EvalAnd(expression, state_)
          [] kind = "Or" -> EvalOr(expression, state_)
          [] kind = "Not" -> EvalNot(expression, state_)
          [] kind = "If" -> EvalIf(expression, state_)
          [] kind = "Lt" -> EvalLt(expression, state_)
          [] kind = "Lte" -> EvalLte(expression, state_)
          [] kind = "Gt" -> EvalGt(expression, state_)
          [] kind = "Gte" -> EvalGte(expression, state_)
          [] kind = "Eq" -> EvalEq(expression, state_)
          [] kind = "Ne" -> EvalNe(expression, state_)
          [] kind = "While" -> EvalWhile(expression, state_)
          [] OTHER -> EvalUnhandled(expression, state_)

\* a call of evaluate: the log opens with the call and, when the call
\* returns, closes with what it returned
evaluate(expression, state_) ==
    LET r == Match(expression, state_)
        call == <<Called(expression, state_)>>
    IN  IF r.err # "none" THEN Unwind(r, call \o r.log)
        ELSE [r EXCEPT !.log = call \o r.log \o
                  <<[ev |-> "return", node |-> expression, value |-> r.value,
                     type |-> r.type, state |-> r.state]>>]

----------------------------------------------------------------------------
(* Expressions *)

Ren == <<"Ren">>
IntLiteral(literal) == <<"IntLiteral", literal>>
FloatingPointLiteral(literal) == <<"FloatingPointLiteral", literal>>
StringLiteral(literal) == <<"StringLiteral", literal>>
BooleanLiteral(literal) == <<"BooleanLiteral", literal>>
PrintExpr(to_print) == <<"Print", to_print>>
Sequence(exprs) == <<"Sequence", exprs>>
Program(exprs) == <<"Program", exprs>>
Variable(variable_name) == <<"Variable", variable_name>>
Assign(variable, value) == <<"Assign", variable, value>>
Binary(kind, left, right) == <<kind, left, right>>
Not(e) == <<"Not", e>>
If(condition, true, false) == <<"If", condition, true, false>>
While(condition, body) == <<"While", condition, body>>

X == Variable("x")
Y == Variable("y")

Literals ==
    {Ren, IntLiteral(0), IntLiteral(1), IntLiteral(-2),
     FloatingPointLiteral(Float(0, 1)), FloatingPointLiteral(Float(1, 2)),
     StringLiteral(<<97>>), BooleanLiteral(TRUE), BooleanLiteral(FALSE)}

Atoms == Literals \cup {X, Y}

\* one operand of each type, and a variable
Operands ==
    {Ren, IntLiteral(1), FloatingPointLiteral(Float(1, 2)), StringLiteral(<<97>>),
     BooleanLiteral(TRUE), X}

\* expressions with an effect: a binding, a printed line, an exception
Effects ==
    {Assign(X, IntLiteral(1)), Assign(Y, BooleanLiteral(FALSE)),
     PrintExpr(IntLiteral(1)), Binary("Divide", IntLiteral(1), IntLiteral(0)),
     Assign(X, BooleanLiteral(FALSE))}

ArithKinds == {"Add", "Subtract", "Multiply"}
LogicKinds == {"And", "Or"}
OrderKinds == {"Lt", "Lte", "Gt", "Gte"}
EqKinds == {"Eq", "Ne"}

Assigned ==
    Atoms \cup Effects
    \cup {Binary("Add", X, IntLiteral(1)), If(Y, IntLiteral(0), StringLiteral(<<97>>))}

Conditions ==
    {BooleanLiteral(FALSE), BooleanLiteral(TRUE), X, Not(Y), IntLiteral(1),
     Binary("Lt", X, IntLiteral(1)),
     If(X, BooleanLiteral(TRUE), IntLiteral(0)),
     If(X, BooleanLiteral(TRUE), IntLiteral(1)),
     If(Binary("Lt", X, IntLiteral(1)), BooleanLiteral(TRUE), Ren),
     Sequence(<<Assign(Y, BooleanLiteral(FALSE)), X>>)}

Bodies ==
    {Assign(X, BooleanLiteral(FALSE)), Assign(X, Binary("Add", X, IntLiteral(1))),
     Assign(Y, BooleanLiteral(TRUE)), PrintExpr(X), StringLiteral(<<97>>),
     Sequence(<<Assign(X, Binary("Add", X, IntLiteral(1))), PrintExpr(X)>>),
     Binary("Divide", IntLiteral(1), X)}

----------------------------------------------------------------------------
(* run_stimpl(Program(exprs)): the Program is given one expression at a    *)
(* time; the for loop of case Program evaluates it in the State the        *)
(* expression before it left.                                              *)

Nothing == Returned(None, "Unit", EmptyState, <<>>)

Init ==
    /\ pc = "for"
    /\ state = EmptyState
    /\ expr = Program(<<>>)
    /\ before = EmptyState
    /\ result = Nothing
    /\ count = 0

\* the Program has a next expression
More == pc = "for" /\ count < MaxExprs

\* for expr in exprs: the next expression is e
Has(e) ==
    /\ pc' = "evaluate"
    /\ expr' = e
    /\ before' = state
    /\ result' = Nothing
    /\ count' = count + 1
    /\ UNCHANGED state

HasLiteral ==
    /\ More
    /\ \E e \in Literals : Has(e)

HasVariable ==
    /\ More
    /\ \E e \in {X, Y} : Has(e)

HasPrint ==
    /\ More
    /\ \E e \in Atoms \cup Effects : Has(PrintExpr(e))

HasAssign ==
    /\ More
    /\ \E v \in {X, Y}, e \in Assigned : Has(Assign(v, e))

HasArith ==
    /\ More
    /\ \E k \in ArithKinds, l, r \in Operands : Has(Binary(k, l, r))

HasDivide ==
    /\ More
    /\ \E l \in Operands, r \in Atoms : Has(Binary("Divide", l, r))

HasLogic ==
    /\ More
    /\ \E k \in LogicKinds,
           l \in {BooleanLiteral(TRUE), BooleanLiteral(FALSE), X, IntLiteral(1),
                   Assign(Y, BooleanLiteral(TRUE))},
           r \in Effects \cup {BooleanLiteral(TRUE), Y} : Has(Binary(k, l, r))

HasNot ==
    /\ More
    /\ \E e \in Atoms : Has(Not(e))

HasIf ==
    /\ More
    /\ \E c \in {BooleanLiteral(TRUE), BooleanLiteral(FALSE), X, IntLiteral(0)},
           t, f \in Effects : Has(If(c, t, f))

HasOrder ==
    /\ More
    /\ \E k \in OrderKinds, l, r \in Operands \cup {IntLiteral(0)} : Has(Binary(k, l, r))

HasEq ==
    /\ More
    /\ \E k \in EqKinds, l, r \in Operands \cup {IntLiteral(0)} : Has(Binary(k, l, r))

HasSequence ==
    /\ More
    /\ \/ Has(Sequence(<<>>))
       \/ \E a \in Effects : Has(Sequence(<<a>>))
       \/ \E a \in Effects, b \in Effects \cup {X, Y} : Has(Sequence(<<a, b>>))
       \/ \E a \in Effects : Has(Program(<<a, Sequence(<<>>)>>))

HasWhile ==
    /\ More
    /\ \E c \in Conditions, b \in Bodies : Has(While(c, b))

HasUnhandled ==
    /\ More
    /\ Has(<<"Lambda", X>>)

\* variable_value, variable_type, new_state = evaluate(expr, new_state);
\* an exception ends run_stimpl
Evaluate ==
    /\ pc = "evaluate"
    /\ LET r == evaluate(expr, state)
       IN  /\ result' = r
           /\ pc' = IF r.err = "none" THEN "for" ELSE "raised"
           /\ state' = IF r.err = "none" THEN r.state ELSE state
    /\ UNCHANGED <<expr, before, count>>

\* the for loop is over: Program returns and run_stimpl returns its triple
Return ==
    /\ pc = "for"
    /\ pc' = "done"
    /\ UNCHANGED <<state, expr, before, result, count>>

Next ==
    \/ HasLiteral
    \/ HasVariable
    \/ HasPrint
    \/ HasAssign
    \/ HasArith
    \/ HasDivide
    \/ HasLogic
    \/ HasNot
    \/ HasIf
    \/ HasOrder
    \/ HasEq
    \/ HasSequence
    \/ HasWhile
    \/ HasUnhandled
    \/ Evaluate
    \/ Return

Spec == Init /\ [][Next]_vars

----------------------------------------------------------------------------
(* Reading the log of an evaluation *)

Min(S) == CHOOSE m \in S : \A n \in S : m <= n

\* for each event, the number of calls of evaluate that are open when it
\* happens: a call at level d returns at level d + 1, the calls it makes are
\* at level d + 1 and return at level d + 2
RECURSIVE LevelsFrom(_, _, _)
LevelsFrom(log, i, open) ==
    IF i > Len(log) THEN <<>>
    ELSE <<open>> \o LevelsFrom(log, i + 1,
                                CASE log[i].ev = "call" -> open + 1
                                  [] log[i].ev = "return" -> open - 1
                                  [] OTHER -> open)

Levels(log) == LevelsFrom(log, 1, 0)

\* the calls of evaluate on a node of one of the kinds
Calls(log, kinds) == {i \in DOMAIN log : log[i].ev = "call" /\ log[i].node[1] \in kinds}

AllCalls(log) == {i \in DOMAIN log : log[i].ev = "call"}

\* the return of the call at i, 0 when it did not return
End(log, lv, i) ==
    LET S == {j \in (i + 1)..Len(log) : log[j].ev = "return" /\ lv[j] = lv[i] + 1}
    IN  IF S = {} THEN 0 ELSE Min(S)

SameBinding(a, b) ==
    /\ a.variable_name = b.variable_name
    /\ a.value[2] = b.value[2]
    /\ a.value[1] = b.value[1]

SameState(s, t) ==
    /\ Len(s) = Len(t)
    /\ \A n \in DOMAIN s : SameBinding(s[n], t[n])

\* the returns of the calls that the call at i made itself
Children(log, lv, i) ==
    {k \in (i + 1)..Len(log) :
        /\ log[k].ev = "return"
        /\ lv[k] = lv[i] + 2
        /\ \A m \in (i + 1)..k : lv[m] > lv[i]}

\* of a call on a While: the returns of its condition, which While evaluates
\* first and then in turn with the body
ConditionReturns(log, lv, i) ==
    {k \in Children(log, lv, i) :
        Cardinality({m \in Children(log, lv, i) : m <= k}) % 2 = 1}

\* the places of the bindings of a name in a State, 1 the newest
Bound(env, name) == {n \in DOMAIN env : env[n].variable_name = name}

----------------------------------------------------------------------------
(* Claims *)

\* C1: every While whose evaluation returns, after any number of iterations
\* and whatever the body produced, returns (False, Boolean, final_env),
\* final_env being the State the last evaluation of the condition returned,
\* the evaluation that was not true.
WhileReturnsFalse ==
    LET log == result.log
        lv == Levels(log)
    IN  \A i \in Calls(log, {"While"}) :
            LET j == End(log, lv, i)
            IN  j # 0 =>
                    /\ log[j].type = "Boolean"
                    /\ log[j].value = FALSE
                    /\ log[j - 1].ev = "return"
                    /\ lv[j - 1] = lv[i] + 2
                    /\ log[j - 1].node = log[i].node[2]
                    /\ ~Truthy(log[j - 1].value, log[j - 1].type)
                    /\ SameState(log[j].state, log[j - 1].state)
                    /\ i = 1 =>
                          /\ result.type = "Boolean"
                          /\ result.value = FALSE
                          /\ SameState(result.state, log[j - 1].state)

\* a While that ran its body, the body giving a value that is not a Boolean
WhileRanBody ==
    /\ pc = "for"
    /\ expr[1] = "While"
    /\ result.err = "none"
    /\ \E i \in DOMAIN result.log :
          /\ result.log[i].ev = "return"
          /\ result.log[i].node = expr[3]
          /\ result.log[i].type = "Integer"

\* C2: Assign(x, e), e having returned (v, t, env1): a binding of x in env1
\* with another type than t gives a type error and no binding; x unbound in
\* env1, or bound last with type t, gives (v, t, env1 with x -> (v, t) put in
\* front), and a Variable(x) evaluated next yields (v, t).
AssignChecksType ==
    LET log == result.log
        lv == Levels(log)
    IN  \A i \in Calls(log, {"Assign"}) :
            LET x == log[i].node[2][2]
                k == End(log, lv, i + 1)
            IN  k # 0 =>
                    LET v == log[k]
                        env1 == v.state
                        o == log[k + 1]
                    IN  /\ (\E n \in Bound(env1, x) : env1[n].value[2] # v.type) =>
                              /\ o.ev = "raise"
                              /\ o.err = "type"
                              /\ o.node = log[i].node
                              /\ pc = "raised"
                              /\ SameState(state, before)
                        /\ (Bound(env1, x) = {}
                              \/ env1[Min(Bound(env1, x))].value[2] = v.type) =>
                              /\ o.ev = "return"
                              /\ o.node = log[i].node
                              /\ o.type = v.type
                              /\ o.value = v.value
                              /\ Len(o.state) = Len(env1) + 1
                              /\ o.state[1].variable_name = x
                              /\ o.state[1].value[2] = v.type
                              /\ o.state[1].value[1] = v.value
                              /\ SameState(Tail(o.state), env1)
                              /\ (/\ k + 2 <= Len(log)
                                  /\ log[k + 2].ev = "call"
                                  /\ log[k + 2].node = Variable(x)) =>
                                      /\ log[k + 3].ev = "return"
                                      /\ log[k + 3].type = v.type
                                      /\ log[k + 3].value = v.value

\* a second Assign to a bound variable, with the type of the binding, went
\* through and a Variable read the new value
AssignShadowed ==
    /\ pc = "for"
    /\ expr[1] = "Sequence"
    /\ Len(expr[2]) = 2
    /\ expr[2][1][1] = "Assign"
    /\ expr[2][2] = expr[2][1][2]
    /\ Bound(before, expr[2][2][2]) # {}
    /\ result.err = "none"
    /\ result.type = "Integer"
    /\ before[Min(Bound(before, expr[2][2][2]))].value[1] # result.value

\* C3: Divide, both operands evaluated, raises the math error exactly when
\* the value of the right operand is Integer 0 or FloatingPoint 0.0, before
\* the types are compared; with any other right operand (every Boolean,
\* String and Unit value) there is no math error, and a type error unless
\* both operands are Integer or both are FloatingPoint.
DivideMathErrorOnlyOnNumericZero ==
    LET log == result.log
        lv == Levels(log)
    IN  \A i \in Calls(log, {"Divide"}) :
            LET l == End(log, lv, i + 1)
                r == IF l = 0 \/ l = Len(log) THEN 0 ELSE End(log, lv, l + 1)
            IN  r # 0 =>
                    LET zero == \/ log[r].type = "Integer" /\ log[r].value = 0
                                \/ log[r].type = "FloatingPoint" /\ log[r].value[1] = 0
                        numeric == /\ log[l].type = log[r].type
                                   /\ log[r].type \in {"Integer", "FloatingPoint"}
                        o == log[r + 1]
                    IN  /\ (o.ev = "raise" /\ o.err = "math") <=> zero
                        /\ ~zero => ((o.ev = "raise" /\ o.err = "type") <=> ~numeric)

\* C4: each time While tests its condition, before the first iteration and
\* after each evaluation of the body, a condition that is not a Boolean
\* raises a type error: no condition that While gets back and goes on from
\* has another type than Boolean.
WhileConditionAlwaysBoolean ==
    LET log == result.log
        lv == Levels(log)
    IN  \A i \in Calls(log, {"While"}) :
            \A k \in ConditionReturns(log, lv, i) :
                log[k].type # "Boolean" =>
                    /\ k < Len(log)
                    /\ log[k + 1].ev = "raise"
                    /\ log[k + 1].err = "type"
                    /\ log[k + 1].node = log[i].node

\* C5: And and Or never short-circuit: whatever the left operand returned,
\* the right operand is evaluated next, in the State the left one returned;
\* what it prints and binds is kept, and when it raises, And / Or does not
\* return.
NoShortCircuit ==
    LET log == result.log
        lv == Levels(log)
    IN  \A i \in Calls(log, {"And", "Or"}) :
            LET j == End(log, lv, i + 1)
            IN  j # 0 =>
                    /\ j < Len(log)
                    /\ log[j + 1].ev = "call"
                    /\ log[j + 1].node = log[i].node[3]
                    /\ SameState(log[j + 1].state, log[j].state)
                    /\ LET k == End(log, lv, j + 1)
                       IN  IF k = 0 THEN End(log, lv, i) = 0 /\ result.err # "none"
                           ELSE /\ log[k + 1].ev \in {"return", "raise"}
                                /\ log[k + 1].node = log[i].node
                                /\ log[k + 1].ev = "return" =>
                                       SameState(log[k + 1].state, log[k].state)

\* And / Or with a left operand False resp. True that decides the result,
\* and a right operand that raised the math error all the same
RightOperandRaised ==
    /\ pc = "raised"
    /\ expr[1] \in {"And", "Or"}
    /\ expr[2] = BooleanLiteral(expr[1] = "Or")
    /\ expr[3][1] = "Divide"
    /\ result.err = "math"

\* C6: every call of evaluate receives the State the step before it left:
\* the State of the caller when it is the caller's first call, else the State
\* the call before it returned (left operand to right operand, element to
\* element of a Sequence / Program, expression to expression of the Program).
\* A Sequence / Program returns the State its last element returned, its
\* bindings kept; an empty one returns (None, Unit, env) with its own env.
EnvironmentThreaded ==
    LET log == result.log
        lv == Levels(log)
    IN  /\ pc = "evaluate" => SameState(before, state)
        /\ log # <<>> => log[1].ev = "call" /\ SameState(log[1].state, before)
        /\ (log # <<>> /\ result.err = "none") => SameState(state, result.state)
        /\ \A k \in AllCalls(log) \ {1} :
              /\ log[k - 1].ev \in {"call", "return"}
              /\ SameState(log[k].state, log[k - 1].state)
        /\ \A i \in Calls(log, {"Sequence", "Program"}) :
              LET j == End(log, lv, i)
              IN  j # 0 =>
                      IF log[i].node[2] = <<>>
                      THEN /\ j = i + 1
                           /\ log[j].type = "Unit"
                           /\ log[j].value = None
                           /\ SameState(log[j].state, log[i].state)
                      ELSE /\ log[j - 1].ev = "return"
                           /\ lv[j - 1] = lv[i] + 2
                           /\ log[j].type = log[j - 1].type
                           /\ log[j].value = log[j - 1].value
                           /\ SameState(log[j].state, log[j - 1].state)

\* a right operand that read the binding the left operand had just made
RightOperandSawLeft ==
    /\ pc = "for"
    /\ expr[1] \in {"And", "Or"}
    /\ expr[2] = Assign(Y, BooleanLiteral(TRUE))
    /\ expr[3] = Y
    /\ Bound(before, "y") = {}
    /\ result.err = "none"
    /\ result.value = TRUE

\* C7: Variable(x) in a State without a binding of x raises the syntax
\* error; in a State with bindings of x it returns the value and the type of
\* the newest one, None of a Unit binding included, and the State it got.
VariableLookup ==
    LET log == result.log
    IN  \A i \in Calls(log, {"Variable"}) :
            LET x == log[i].node[2]
                env == log[i].state
                o == log[i + 1]
            IN  IF Bound(env, x) = {}
                THEN /\ o.ev = "raise"
                     /\ o.err = "syntax"
                     /\ o.node = log[i].node
                ELSE /\ o.ev = "return"
                     /\ o.type = env[Min(Bound(env, x))].value[2]
                     /\ o.value = env[Min(Bound(env, x))].value[1]
                     /\ SameState(o.state, env)

\* a Variable read in a State with two bindings of its name, of different
\* values, and gave the newer one
VariableReadNewest ==
    \E i \in Calls(result.log, {"Variable"}) :
        LET env == result.log[i].state
            places == Bound(env, result.log[i].node[2])
        IN  /\ Cardinality(places) >= 2
            /\ \E n \in places : env[n].value[1] # env[Min(places)].value[1]
            /\ result.log[i + 1].ev = "return"
            /\ result.log[i + 1].value = env[Min(places)].value[1]

\* C8: an error is terminal and is the error of the first step that fails: the
\* raise is the last thing that happens in the evaluation (no call, no
\* printed line, no binding after it), the whole evaluation ends with that
\* error and returns no (value, type, State), and run_stimpl ends there.
ErrorsAreTerminal ==
    LET log == result.log
    IN  /\ \A i \in DOMAIN log :
              log[i].ev = "raise" =>
                  /\ i = Len(log)
                  /\ result.err = log[i].err
        /\ result.err \in Errors =>
              /\ log[Len(log)].ev = "raise"
              /\ result.type = None
              /\ result.value = None
              /\ result.state = EmptyState
              /\ pc = "raised"
              /\ SameState(state, before)
        /\ pc = "raised" => result.err \in Errors \cup {"diverge"}
        /\ (pc \in {"for", "done"} /\ count > 0) => result.err = "none"

\* the first element of a Sequence raised and its second element, which
\* prints, was not evaluated
LaterElementSkipped ==
    /\ pc = "raised"
    /\ expr[1] = "Sequence"
    /\ Len(expr[2]) = 2
    /\ expr[2][1][1] = "Divide"
    /\ expr[2][2][1] = "Print"
    /\ result.err = "math"

\* C9: when evaluate(node, env) returns env', env' is env with bindings put
\* in front, one for each Assign that returned during the evaluation, in the
\* order of evaluation; nothing of env is removed or changed, and without an
\* Assign env' is env.
BindingsOnlyPrepended ==
    LET log == result.log
        lv == Levels(log)
    IN  \A i \in AllCalls(log) :
            LET j == End(log, lv, i)
                IsAssign(n) == log[n].ev = "return" /\ log[n].node[1] = "Assign"
            IN  j # 0 =>
                    LET env == log[i].state
                        env2 == log[j].state
                        made == SelectSeq([n \in 1..(j - i) |-> i + n], IsAssign)
                        m == Len(made)
                    IN  /\ Len(env2) = Len(env) + m
                        /\ \A n \in DOMAIN env : SameBinding(env2[m + n], env[n])
                        /\ \A q \in 1..m :
                              LET b == env2[m - q + 1]
                                  a == log[made[q]]
                              IN  /\ b.variable_name = a.node[2][2]
                                  /\ b.value[2] = a.type
                                  /\ b.value[1] = a.value

\* an expression evaluated in a State with a binding returned a State with
\* two more
TwoBindingsPrepended ==
    /\ pc = "for"
    /\ before # EmptyState
    /\ result.err = "none"
    /\ Len(result.state) = Len(before) + 2

\* the bindings of a State that have the same name have the same type
TypeStable(env) ==
    \A m, n \in DOMAIN env :
        env[m].variable_name = env[n].variable_name => env[m].value[2] = env[n].value[2]

\* C10: in every State that evaluating a program from EmptyState produces,
\* the bindings with the same name have the same type, so the type that
\* Variable(x) returns never changes during a run.
VariablesKeepTheirType ==
    /\ TypeStable(state)
    /\ TypeStable(before)
    /\ \A i \in DOMAIN result.log :
          result.log[i].ev \in {"call", "return"} => TypeStable(result.log[i].state)

\* a While bound a variable that was bound before it, more than once
LoopReboundVariable ==
    /\ pc = "for"
    /\ expr[1] = "While"
    /\ result.err = "none"
    /\ \E name \in {"x", "y"} :
          /\ Bound(before, name) # {}
          /\ Cardinality(Bound(state, name)) >= Cardinality(Bound(before, name)) + 2

====
